---- MODULE Spec2Model ----
(***************************************************************************)
(* The search-refine-evaluate loop of langgraph_utils.py: the compiled     *)
(* graph generate_query -> search_wikidata -> agent_evaluate ->            *)
(* {generate_query | agent_postprocess} -> END over one PipelineState.     *)
(*                                                                         *)
(* A Python str is a sequence of one-character strings; None is the        *)
(* sentinel None. An action is a str like any other.                       *)
(* eval_reason is a sequence of text pieces: the evaluator's own reason    *)
(* followed by the notes the node appends to it.                           *)
(***************************************************************************)
EXTENDS Integers, Sequences, FiniteSets, TLC

\* Largest max_iterations a run is started with.
MaxIterations == 3

\* Longest string whose normalisation is examined on its own.
MaxLen == 9

None == <<"None">>

\* ---------------------------------------------------------------------
\* Strings
\* ---------------------------------------------------------------------

LowerLetters == <<"a", "b", "c", "d", "e", "f", "g", "h", "i", "j", "k", "l", "m",
                  "n", "o", "p", "q", "r", "s", "t", "u", "v", "w", "x", "y", "z">>
UpperLetters == <<"A", "B", "C", "D", "E", "F", "G", "H", "I", "J", "K", "L", "M",
                  "N", "O", "P", "Q", "R", "S", "T", "U", "V", "W", "X", "Y", "Z">>

\* str.lower() on one character.
LowerChar(ch) ==
    IF \E i \in 1..26 : UpperLetters[i] = ch
    THEN LowerLetters[CHOOSE i \in 1..26 : UpperLetters[i] = ch]
    ELSE ch

\* str.lower()
Lower(s) == [i \in 1..Len(s) |-> LowerChar(s[i])]

\* `sub in s` for two strings.
Contains(s, sub) ==
    \E i \in 0..(Len(s) - Len(sub)) : SubSeq(s, i + 1, i + Len(sub)) = sub

\* str.replace(old, " ") for a one-character old.
ReplaceWithSpace(s, old) == [i \in 1..Len(s) |-> IF s[i] = old THEN " " ELSE s[i]]

\* str.split(): the maximal runs of non-space characters, in order.
RECURSIVE SplitFrom(_, _, _)
SplitFrom(s, i, cur) ==
    IF i > Len(s) THEN (IF cur = <<>> THEN <<>> ELSE <<cur>>)
    ELSE IF s[i] = " "
         THEN (IF cur = <<>> THEN SplitFrom(s, i + 1, <<>>)
                             ELSE <<cur>> \o SplitFrom(s, i + 1, <<>>))
         ELSE SplitFrom(s, i + 1, Append(cur, s[i]))

Split(s) == SplitFrom(s, 1, <<>>)

\* " ".join(tokens)
RECURSIVE Join(_)
Join(tokens) ==
    IF tokens = <<>> THEN <<>>
    ELSE IF Len(tokens) = 1 THEN tokens[1]
    ELSE tokens[1] \o <<" ">> \o Join(Tail(tokens))

\* tokens[:n]
Take(tokens, n) == SubSeq(tokens, 1, IF Len(tokens) < n THEN Len(tokens) ELSE n)

\* str.strip()
RECURSIVE LStrip(_)
LStrip(s) == IF s # <<>> /\ s[1] = " " THEN LStrip(Tail(s)) ELSE s
RECURSIVE RStrip(_)
RStrip(s) == IF s # <<>> /\ s[Len(s)] = " " THEN RStrip(SubSeq(s, 1, Len(s) - 1)) ELSE s
Strip(s) == RStrip(LStrip(s))

\* `v or ""` for a str-or-None value.
OrEmpty(v) == IF v = None THEN <<>> ELSE v

\* Default of the max_tokens parameter of _normalize_query.
max_tokens == 4

\* _normalize_query with the separators replaced after the truncation.
_normalize_query_ReplaceLast(q) ==
    LET cleaned == Join(Split(q))
        cut == Join(Take(Split(cleaned), max_tokens))
    IN  ReplaceWithSpace(ReplaceWithSpace(cut, "|"), ",")

\* _normalize_query(q, max_tokens=4)
_normalize_query(q) ==
    LET cleaned == Join(Split(ReplaceWithSpace(ReplaceWithSpace(q, "|"), ",")))
    IN  Join(Take(Split(cleaned), max_tokens))

\* ---------------------------------------------------------------------
\* Values exchanged with the language model and the search endpoint
\* ---------------------------------------------------------------------

Select == <<"s", "e", "l", "e", "c", "t">>
Refine == <<"r", "e", "f", "i", "n", "e">>
Stop   == <<"s", "t", "o", "p">>

\* A JSON value that is present, truthy and not a string (a number, say).
NotAStr == <<"NotAStr">>

\* Notes node_agent_evaluate appends to the reason.
NoteOverridden == " | overridden to refine: empty hits on first iteration."
NoteNoCandidates == " | no non-article candidates above score threshold; refine query."
NoteStopping == " | stopping: no new query to try."
NoteInvalidJson == "Invalid JSON: "

\* The description terms that disqualify a candidate.
DisallowedTerms ==
    { <<"s", "c", "h", "o", "l", "a", "r", "l", "y", " ", "a", "r", "t", "i", "c", "l", "e">>,
      <<"s", "c", "i", "e", "n", "t", "i", "f", "i", "c", " ", "a", "r", "t", "i", "c", "l", "e">>,
      <<"j", "o", "u", "r", "n", "a", "l", " ", "a", "r", "t", "i", "c", "l", "e">>,
      <<"a", "c", "a", "d", "e", "m", "i", "c", " ", "p", "a", "p", "e", "r">> }

\* A JSON number as Python reads it: a float in tenths, NaN, a missing key,
\* or a value float()/int() rejects (a non-numeric string).
Num(n)    == [t |-> "num", tenths |-> n]
NaN       == [t |-> "nan", tenths |-> 0]
Absent    == [t |-> "absent", tenths |-> 0]
NotANum   == [t |-> "text", tenths |-> 0]

\* A Python float: NaN or a value in tenths.
Float(n)  == [nan |-> FALSE, tenths |-> n]
FloatNaN  == [nan |-> TRUE, tenths |-> 0]

\* a < b on floats; every comparison with NaN is False.
FloatLt(a, b) == ~a.nan /\ ~b.nan /\ a.tenths < b.tenths

\* float(c.get("score", 0.0)) where it does not raise.
ToFloat(v) ==
    CASE v.t = "num" -> Float(v.tenths)
      [] v.t = "nan" -> FloatNaN
      [] OTHER       -> Float(0)

\* float(v) raises ValueError.
FloatRaises(v) == v.t = "text"

\* int(c.get("rank", 0)) where it does not raise: truncation toward zero.
ToInt(v) ==
    IF v.t = "num"
    THEN (IF v.tenths >= 0 THEN v.tenths \div 10 ELSE -((-v.tenths) \div 10))
    ELSE 0

\* int(v) raises ValueError.
IntRaises(v) == v.t \in {"text", "nan"}

Q1 == <<"Q", "1">>
Q2 == <<"Q", "2">>
Q9 == <<"Q", "9">>

DescUnit      == <<"u", "n", "i", "t">>
DescArticle   == <<"s", "c", "i", "e", "n", "t", "i", "f", "i", "c", " ", "a", "r", "t", "i", "c", "l", "e">>
DescArticleUp == <<"S", "c", "h", "o", "l", "a", "r", "l", "y", " ", "A", "r", "t", "i", "c", "l", "e">>
DescJournal   == <<"a", " ", "j", "o", "u", "r", "n", "a", "l", " ", "a", "r", "t", "i", "c", "l", "e", ".">>
DescPaper     == <<"a", "c", "a", "d", "e", "m", "i", "c", " ", "p", "a", "p", "e", "r">>

\* One entry of the evaluator's "candidates" list.
Cand(id, desc, score, rank) ==
    [isdict |-> TRUE, id |-> id, label |-> <<"l">>, description |-> desc,
     score |-> score, rank |-> rank]

\* An entry that is not a JSON object.
CandNotDict ==
    [isdict |-> FALSE, id |-> None, label |-> None, description |-> None,
     score |-> Absent, rank |-> Absent]

CandGood     == Cand(Q1, DescUnit, Num(9), Num(10))
CandEdge     == Cand(Q2, None, Num(5), Num(17))
CandLow      == Cand(Q1, DescUnit, Num(4), Num(10))
CandArticle  == Cand(Q2, DescArticle, Num(9), Num(10))
CandArticleU == Cand(Q1, DescArticleUp, Num(8), Num(20))
CandJournal  == Cand(Q1, DescJournal, Num(8), Num(20))
CandPaper    == Cand(Q1, DescPaper, Num(8), Num(20))
CandNoId     == Cand(None, DescUnit, Num(9), Num(10))
CandEmptyId  == Cand(<<>>, DescUnit, Num(9), Num(10))
CandNaN      == Cand(Q1, DescUnit, NaN, Num(10))
CandBig      == Cand(Q1, DescUnit, Num(70), Absent)
CandUnknown  == Cand(Q9, DescUnit, Num(9), Num(10))
CandBadScore == Cand(Q1, DescUnit, NotANum, Num(10))
CandBadRank  == Cand(Q1, DescUnit, Num(9), NotANum)
CandNoScore  == Cand(Q1, DescUnit, Absent, Num(10))

\* The "candidates" lists an evaluator answer is drawn from.
CandidateLists ==
    { <<>>, <<CandGood>>, <<CandGood, CandEdge>>, <<CandLow>>, <<CandArticle>>,
      <<CandArticleU, CandJournal, CandPaper>>, <<CandNoId, CandEmptyId, CandNoScore>>,
      <<CandArticle, CandGood, CandLow>>, <<CandNaN>>, <<CandBig>>, <<CandUnknown>>,
      <<CandNotDict>>, <<CandBadScore>>, <<CandGood, CandBadRank>>,
      <<CandNoId, CandArticle, CandLow>> }

\* Raw texts the models return where a query is expected.
RawQueries ==
    { <<>>, <<"a">>, <<" ", "a", " ">>, <<"a", "|", ",", "b">>, <<"A">>,
      <<"a", " ", "b", " ", "c", " ", "d", " ", "e">>, <<",">> }

\* Values of the "action" key of an evaluator answer.
RawActions ==
    { Select, Refine, Stop, <<"R", "e", "F", "I", "N", "E">>, <<"o", "k">>, None, NotAStr }

\* Values of the "reason" key of an evaluator answer.
RawReasons == { None, <<"r">> }

\* What json.loads makes of the evaluator's text: a JSON object, a JSON value
\* that is not an object, or nothing (both parse attempts fail).
Answer(kind, action, reason, suggested, cands) ==
    [kind |-> kind, action |-> action, reason |-> reason,
     suggested_query |-> suggested, candidates |-> cands]

\* Answers without candidates, answers that select with candidates, and the
\* two kinds of text that give no JSON object.
EvaluatorAnswers ==
    { Answer("object", a, r, s, <<>>) :
        a \in RawActions, r \in RawReasons, s \in RawQueries }
    \cup { Answer("object", Select, <<"r">>, s, c) :
             s \in {<<>>, <<"a">>, <<"A">>}, c \in CandidateLists }
    \cup { Answer("nonobject", None, None, None, <<>>),
           Answer("invalid", None, None, None, <<>>) }

NoAnswer == Answer("none", None, None, None, <<>>)

Hit(id, desc) == [id |-> id, label |-> <<"l">>, description |-> desc]

\* Outcomes of the wbsearchentities call: the "search" list of the reply, or
\* an exception (connection error, timeout, HTTP error status, bad JSON).
SearchOk(hits) == [ok |-> TRUE, hits |-> hits]
SearchFailed   == [ok |-> FALSE, hits |-> <<>>]
ErrorHit       == [error |-> <<"e">>]

SearchOutcomes ==
    { SearchOk(<<>>), SearchOk(<<Hit(Q1, DescUnit)>>),
      SearchOk(<<Hit(Q2, DescArticle), Hit(Q1, DescUnit)>>), SearchFailed }

\* ---------------------------------------------------------------------
\* State
\* ---------------------------------------------------------------------

\* state  : the PipelineState dictionary of the run (a key that is not set
\*          reads as None, the empty list or the .get default)
\* pc     : the node the compiled graph runs next, "END" after the last
\*          node, "raised" once an exception has left a node
\* answer : the evaluator answer the last agent_evaluate step consumed
VARIABLES state, pc, answer

\* What the run has done so far, for the properties:
\* searched       : the `search` parameters of the requests.get calls, in order
\* search_result  : how the last search_wikidata step went: "skipped" (no
\*                  call), "ok" or "failed" (the call raised); "none" before
\* proposer_calls : the number of llm.invoke calls made by generate_query
\* steps          : how many times each node has run
\* only_fresh_refines : every agent_evaluate step so far got a refine answer
\*                  whose normalized suggestion was a query not tried before
VARIABLES searched, search_result, proposer_calls, steps, only_fresh_refines

\* norm : a string and its first and second normalisation (NormSpec)
VARIABLE norm

vars == <<state, pc, answer, searched, search_result, proposer_calls, steps,
          only_fresh_refines, norm>>

\* ---------------------------------------------------------------------
\* generate_query
\* ---------------------------------------------------------------------

\* `if suggested:` the evaluator's suggestion is adopted, no proposer call.
AdoptsSuggestion(st) == OrEmpty(st.eval_suggested_query) # <<>>

\* node_generate_query without the branch that adopts the suggestion.
node_generate_query_AlwaysAsks(st, content) ==
    LET query == _normalize_query(Strip(OrEmpty(content)))
    IN  [st EXCEPT !.query = query,
                   !.query_history = st.query_history \o <<query>>,
                   !.eval_action = None,
                   !.eval_reason = None,
                   !.eval_suggested_query = None]

\* node_generate_query that leaves the suggestion in the state.
node_generate_query_KeepsSuggestion(st, content) ==
    LET suggested == OrEmpty(st.eval_suggested_query)
        query == IF AdoptsSuggestion(st)
                 THEN _normalize_query(suggested)
                 ELSE _normalize_query(Strip(OrEmpty(content)))
    IN  [st EXCEPT !.query = query,
                   !.query_history = st.query_history \o <<query>>,
                   !.eval_action = None,
                   !.eval_reason = None]

\* node_generate_query with the history restarted from the new query.
node_generate_query_DropsHistory(st, content) ==
    LET suggested == OrEmpty(st.eval_suggested_query)
        query == IF AdoptsSuggestion(st)
                 THEN _normalize_query(suggested)
                 ELSE _normalize_query(Strip(OrEmpty(content)))
    IN  [st EXCEPT !.query = query,
                   !.query_history = <<query>>,
                   !.eval_action = None,
                   !.eval_reason = None,
                   !.eval_suggested_query = None]

\* node_generate_query; content is resp.content of the proposer call.
node_generate_query(st, content) ==
    LET prior_queries == st.query_history
        suggested == OrEmpty(st.eval_suggested_query)
        query == IF AdoptsSuggestion(st)
                 THEN _normalize_query(suggested)
                 ELSE _normalize_query(Strip(OrEmpty(content)))
    IN  [st EXCEPT !.query = query,
                   !.query_history = prior_queries \o <<query>>,
                   !.eval_action = None,
                   !.eval_reason = None,
                   !.eval_suggested_query = None]

\* ---------------------------------------------------------------------
\* search_wikidata
\* ---------------------------------------------------------------------

\* `if not q:` fails: the search endpoint is called.
SearchCalled(st) == Strip(OrEmpty(st.query)) # <<>>

\* node_search_wikidata without the early return on an empty query.
node_search_wikidata_NoSkip(st, outcome) ==
    IF outcome.ok
    THEN [st EXCEPT !.wikidata_hits = outcome.hits]
    ELSE [st EXCEPT !.wikidata_hits = <<ErrorHit>>]

\* node_search_wikidata; outcome is what requests.get and the decoding of
\* its reply produce, read only when the query is not empty.
node_search_wikidata(st, outcome) ==
    IF ~SearchCalled(st) THEN st
    ELSE IF outcome.ok
         THEN [st EXCEPT !.wikidata_hits = outcome.hits]
         ELSE [st EXCEPT !.wikidata_hits = <<ErrorHit>>]

\* ---------------------------------------------------------------------
\* agent_evaluate
\* ---------------------------------------------------------------------

\* The record the parsing block leaves in `parsed`.
Parsed(ans) ==
    IF ans.kind = "invalid"
    THEN [action |-> Stop, reason |-> <<NoteInvalidJson, "raw">>,
          suggested_query |-> <<>>, candidates |-> <<>>]
    ELSE [action |-> ans.action, reason |-> ans.reason,
          suggested_query |-> ans.suggested_query, candidates |-> ans.candidates]

\* action = (parsed.get("action") or "stop").lower(), unknown values -> "stop".
ParsedAction(parsed) ==
    LET a == Lower(IF parsed.action \in {None, <<>>} THEN Stop ELSE parsed.action)
    IN  IF a \in {Select, Refine, Stop} THEN a ELSE Stop

\* hits_empty
hits_empty(hits) == hits = <<>>

\* The hard guard: a stop on empty hits at iteration < 1 becomes a refine.
GuardApplies(st, parsed) ==
    ParsedAction(parsed) = Stop /\ hits_empty(st.wikidata_hits) /\ st.iteration < 1

GuardedAction(st, parsed) ==
    IF GuardApplies(st, parsed) THEN Refine ELSE ParsedAction(parsed)

\* suggested_raw and its normalisation.
suggested_raw(parsed) == OrEmpty(parsed.suggested_query)

cleaned_suggested(parsed) ==
    IF suggested_raw(parsed) # <<>> THEN _normalize_query(suggested_raw(parsed)) ELSE <<>>

\* desc_low contains one of the disallowed terms.
IsArticle(desc) == \E term \in DisallowedTerms : Contains(Lower(desc), term)

\* score_val < 0.5
BelowThreshold(score_val) == FloatLt(score_val, Float(5))

\* The body of the candidate loop for one entry: the entities it appends.
KeepCandidate(c) ==
    LET cid == c.id
        desc == OrEmpty(c.description)
        score_val == ToFloat(c.score)
    IN  IF cid \in {None, <<>>} THEN <<>>
        ELSE IF IsArticle(desc) THEN <<>>
        ELSE IF BelowThreshold(score_val) THEN <<>>
        ELSE << [id |-> cid, label |-> OrEmpty(c.label), description |-> desc,
                 score |-> score_val, rank |-> ToInt(c.rank)] >>

\* The body of the candidate loop raises for this entry.
CandidateRaises(c) ==
    \/ ~c.isdict
    \/ /\ c.id \notin {None, <<>>}
       /\ \/ FloatRaises(c.score)
          \/ /\ KeepCandidate(c) # <<>>
             /\ IntRaises(c.rank)

\* for c in candidates_raw: ... selected_entities.append(...)
RECURSIVE FilterCandidates(_)
FilterCandidates(cands) ==
    IF cands = <<>> THEN <<>>
    ELSE KeepCandidate(Head(cands)) \o FilterCandidates(Tail(cands))

\* selected_entities as the node stores it.
SelectedEntities(st, parsed) ==
    IF GuardedAction(st, parsed) = Select THEN FilterCandidates(parsed.candidates) ELSE <<>>

\* ActionBeforeRule2 without the downgrade of an empty selection.
ActionBeforeRule2_KeepSelect(st, parsed) == GuardedAction(st, parsed)

\* ActionBeforeRule2 with the empty selection downgraded to stop.
ActionBeforeRule2_ToStop(st, parsed) ==
    IF GuardedAction(st, parsed) = Select /\ SelectedEntities(st, parsed) = <<>>
    THEN Stop
    ELSE GuardedAction(st, parsed)

\* The action when the rule on the suggested query is reached.
ActionBeforeRule2(st, parsed) ==
    IF GuardedAction(st, parsed) = Select /\ SelectedEntities(st, parsed) = <<>>
    THEN Refine
    ELSE GuardedAction(st, parsed)

\* x in history
InHistory(x, history) == \E i \in 1..Len(history) : history[i] = x

\* NoNewQuery without the test against the history.
NoNewQuery_NoHistoryTest(st, parsed) ==
    \/ cleaned_suggested(parsed) = <<>>
    \/ cleaned_suggested(parsed) = OrEmpty(st.query)

\* NoNewQuery without the test for an empty suggestion.
NoNewQuery_NoEmptyTest(st, parsed) ==
    \/ cleaned_suggested(parsed) = OrEmpty(st.query)
    \/ InHistory(cleaned_suggested(parsed), st.query_history)

\* The refine cannot go on: nothing new to try.
NoNewQuery(st, parsed) ==
    \/ cleaned_suggested(parsed) = <<>>
    \/ cleaned_suggested(parsed) = OrEmpty(st.query)
    \/ InHistory(cleaned_suggested(parsed), st.query_history)

\* An exception leaves node_agent_evaluate.
EvaluateRaises(st, ans) ==
    \/ ans.kind = "nonobject"
    \/ /\ ans.kind = "object"
       /\ \/ ans.action = NotAStr
          \/ /\ GuardedAction(st, Parsed(ans)) = Select
             /\ \E i \in 1..Len(ans.candidates) : CandidateRaises(ans.candidates[i])

\* Rule on the suggested query fires: the refine is turned into a stop.
Downgraded(st, parsed) ==
    ActionBeforeRule2(st, parsed) = Refine /\ NoNewQuery(st, parsed)

\* IterationAfter with the increment ahead of the rule on the suggested query.
IterationAfter_BeforeRule2(st, parsed) ==
    IF ActionBeforeRule2(st, parsed) = Refine
    THEN st.iteration + 1
    ELSE st.iteration

\* state["iteration"] after the node: one more for a refine that goes on.
IterationAfter(st, parsed) ==
    IF ActionBeforeRule2(st, parsed) = Refine /\ ~Downgraded(st, parsed)
    THEN st.iteration + 1
    ELSE st.iteration

\* node_agent_evaluate where it returns.
node_agent_evaluate(st, ans) ==
    LET parsed == Parsed(ans)
        guarded == GuardedAction(st, parsed)
        reason0 == OrEmpty(parsed.reason)
        reason1 == IF GuardApplies(st, parsed) /\ suggested_raw(parsed) = <<>>
                   THEN Append(reason0, NoteOverridden) ELSE reason0
        selected_entities == SelectedEntities(st, parsed)
        reason2 == IF guarded = Select /\ selected_entities = <<>>
                   THEN Append(reason1, NoteNoCandidates) ELSE reason1
        action2 == ActionBeforeRule2(st, parsed)
        downgrade == Downgraded(st, parsed)
    IN  [st EXCEPT
            !.iteration = IterationAfter(st, parsed),
            !.eval_action = IF downgrade THEN Stop ELSE action2,
            !.eval_reason = IF downgrade THEN Append(reason2, NoteStopping) ELSE reason2,
            !.eval_suggested_query = IF downgrade THEN <<>> ELSE cleaned_suggested(parsed),
            !.selected_entities = selected_entities]

\* router_after_eval with <= for < in the bound test.
router_after_eval_Inclusive(st) ==
    LET action == Lower(IF st.eval_action \in {None, <<>>} THEN Stop ELSE st.eval_action)
    IN  IF action = Refine /\ st.iteration <= st.max_iterations THEN "refine" ELSE "done"

\* router_after_eval
router_after_eval(st) ==
    LET action == Lower(IF st.eval_action \in {None, <<>>} THEN Stop ELSE st.eval_action)
    IN  IF action = Refine /\ st.iteration < st.max_iterations THEN "refine" ELSE "done"

\* ---------------------------------------------------------------------
\* agent_postprocess
\* ---------------------------------------------------------------------

\* node_agent_postprocess that also empties the suggested query.
node_agent_postprocess_ClearsSuggestion(st) ==
    [st EXCEPT !.agent_notes =
        [action |-> st.eval_action, query |-> OrEmpty(st.query),
         hits |-> Len(st.wikidata_hits), selected |-> Len(st.selected_entities),
         reason |-> st.eval_reason],
               !.eval_suggested_query = <<>>]

\* node_agent_postprocess; agent_notes holds the values the note is
\* formatted from.
node_agent_postprocess(st) ==
    [st EXCEPT !.agent_notes =
        [action |-> st.eval_action, query |-> OrEmpty(st.query),
         hits |-> Len(st.wikidata_hits), selected |-> Len(st.selected_entities),
         reason |-> st.eval_reason]]

NoNotes == [action |-> None, query |-> None, hits |-> 0, selected |-> 0, reason |-> None]

\* ---------------------------------------------------------------------
\* Observations on a step
\* ---------------------------------------------------------------------

\* The normalized suggestion of an answer is a query not tried so far.
FreshSuggestion(st, ans) ==
    LET s == IF ans.suggested_query \in {None, <<>>} THEN <<>>
             ELSE _normalize_query(ans.suggested_query)
    IN  /\ s # <<>>
        /\ s # OrEmpty(st.query)
        /\ \A i \in 1..Len(st.query_history) : st.query_history[i] # s

\* The answer is a refine with a suggestion that is a query not tried so far.
RawFreshRefine(st, ans) ==
    /\ ans.kind = "object"
    /\ ans.action \notin {None, NotAStr}
    /\ Lower(ans.action) = Refine
    /\ FreshSuggestion(st, ans)

NoSteps ==
    [generate_query |-> 0, search_wikidata |-> 0, agent_evaluate |-> 0,
     agent_postprocess |-> 0]

\* One more run of a node.
Stepped(node) == [steps EXCEPT ![node] = @ + 1]

NoNorm == [q |-> None, once |-> None, twice |-> None]

\* ---------------------------------------------------------------------
\* The compiled graph
\* ---------------------------------------------------------------------

\* initial_state of a run; max_iterations is the caller's.
initial_state(max_iterations) ==
    [query |-> None, query_history |-> <<>>, wikidata_hits |-> <<>>,
     eval_action |-> None, eval_reason |-> None, eval_suggested_query |-> None,
     selected_entities |-> <<>>, iteration |-> 0, max_iterations |-> max_iterations,
     agent_notes |-> NoNotes]

Init ==
    /\ \E m \in 0..MaxIterations : state = initial_state(m)
    /\ pc = "generate_query"
    /\ answer = NoAnswer
    /\ searched = <<>>
    /\ search_result = "none"
    /\ proposer_calls = 0
    /\ steps = NoSteps
    /\ only_fresh_refines = TRUE
    /\ norm = NoNorm

GenerateQuery ==
    /\ pc = "generate_query"
    /\ \E content \in RawQueries : state' = node_generate_query(state, content)
    /\ proposer_calls' = IF AdoptsSuggestion(state) THEN proposer_calls
                                                   ELSE proposer_calls + 1
    /\ pc' = "search_wikidata"
    /\ answer' = NoAnswer
    /\ steps' = Stepped("generate_query")
    /\ UNCHANGED <<searched, search_result, only_fresh_refines, norm>>

SearchWikidata ==
    /\ pc = "search_wikidata"
    /\ \E outcome \in SearchOutcomes :
          /\ state' = node_search_wikidata(state, outcome)
          /\ search_result' = IF ~SearchCalled(state) THEN "skipped"
                              ELSE IF outcome.ok THEN "ok" ELSE "failed"
    /\ searched' = IF SearchCalled(state)
                   THEN Append(searched, Strip(OrEmpty(state.query)))
                   ELSE searched
    /\ pc' = "agent_evaluate"
    /\ steps' = Stepped("search_wikidata")
    /\ UNCHANGED <<answer, proposer_calls, only_fresh_refines, norm>>

AgentEvaluate ==
    /\ pc = "agent_evaluate"
    /\ \E ans \in EvaluatorAnswers :
          /\ ~EvaluateRaises(state, ans)
          /\ state' = node_agent_evaluate(state, ans)
          /\ answer' = ans
          /\ only_fresh_refines' = (only_fresh_refines /\ RawFreshRefine(state, ans))
    /\ pc' = IF router_after_eval(state') = "refine"
             THEN "generate_query" ELSE "agent_postprocess"
    /\ steps' = Stepped("agent_evaluate")
    /\ UNCHANGED <<searched, search_result, proposer_calls, norm>>

AgentEvaluateRaises ==
    /\ pc = "agent_evaluate"
    /\ \E ans \in EvaluatorAnswers :
          /\ EvaluateRaises(state, ans)
          /\ answer' = ans
          /\ only_fresh_refines' = (only_fresh_refines /\ RawFreshRefine(state, ans))
    /\ pc' = "raised"
    /\ UNCHANGED <<state, searched, search_result, proposer_calls, steps, norm>>

AgentPostprocess ==
    /\ pc = "agent_postprocess"
    /\ state' = node_agent_postprocess(state)
    /\ pc' = "END"
    /\ steps' = Stepped("agent_postprocess")
    /\ UNCHANGED <<answer, searched, search_result, proposer_calls,
                   only_fresh_refines, norm>>

Next ==
    \/ GenerateQuery
    \/ SearchWikidata
    \/ AgentEvaluate
    \/ AgentEvaluateRaises
    \/ AgentPostprocess

Spec == Init /\ [][Next]_vars

\* ---------------------------------------------------------------------
\* _normalize_query on its own
\* ---------------------------------------------------------------------

\* The strings of up to MaxLen characters made of a letter, the space and
\* one of the two separators _normalize_query replaces.
NormInputs ==
    UNION { UNION { [1..n -> {"a", " ", sep}] : n \in 0..MaxLen } : sep \in {",", "|"} }

NormInit ==
    /\ state = initial_state(MaxIterations)
    /\ pc = "generate_query"
    /\ answer = NoAnswer
    /\ searched = <<>>
    /\ search_result = "none"
    /\ proposer_calls = 0
    /\ steps = NoSteps
    /\ only_fresh_refines = TRUE
    /\ \E q \in NormInputs : norm = [q |-> q, once |-> None, twice |-> None]

\* _normalize_query applied to the string.
NormalizeOnce ==
    /\ norm.once = None
    /\ norm' = [norm EXCEPT !.once = _normalize_query(norm.q)]
    /\ UNCHANGED <<state, pc, answer, searched, search_result, proposer_calls,
                   steps, only_fresh_refines>>

\* _normalize_query applied to its own result, as generate_query applies it
\* to a suggestion agent_evaluate has normalized.
NormalizeTwice ==
    /\ norm.once # None
    /\ norm.twice = None
    /\ norm' = [norm EXCEPT !.twice = _normalize_query(norm.once)]
    /\ UNCHANGED <<state, pc, answer, searched, search_result, proposer_calls,
                   steps, only_fresh_refines>>

NormNext == NormalizeOnce \/ NormalizeTwice

NormSpec == NormInit /\ [][NormNext]_vars

\* ---------------------------------------------------------------------
\* Properties
\* ---------------------------------------------------------------------

\* An agent_evaluate step that returned (no exception left the node).
EvaluateStep == pc = "agent_evaluate" /\ pc' # "raised"

\* The last piece of a reason text, "" for an empty one.
LastPiece(reason) == IF reason \in {None, <<>>} THEN "" ELSE reason[Len(reason)]

\* A piece occurs in a reason text.
HasPiece(reason, piece) ==
    reason # None /\ \E i \in 1..Len(reason) : reason[i] = piece

\* C1: in every reachable state 0 <= iteration <= max_iterations, for any
\* non-negative max_iterations, also right after an increment.
C1_IterationWithinBound ==
    0 <= state.iteration /\ state.iteration <= state.max_iterations

\* C2: every run goes on until END, where agent_postprocess has run and
\* written its note: a run that is not at END can take its next step.
C2_RunReachesEnd ==
    /\ pc # "END" => ENABLED Next
    /\ pc = "END" => state.agent_notes # NoNotes

\* C3: query_history never holds two equal entries.
C3_HistoryNoDuplicates ==
    \A i, j \in 1..Len(state.query_history) :
        i # j => state.query_history[i] # state.query_history[j]

\* The run has looped back at least twice and an evaluator suggestion that
\* repeated an older query has just been turned down.
C3_Witness ==
    /\ Len(state.query_history) >= 3
    /\ answer.kind = "object"
    /\ answer.suggested_query \notin {None, <<>>}
    /\ _normalize_query(answer.suggested_query) = state.query_history[1]
    /\ state.eval_action = Stop

\* C4: when the decision that reaches the rule on the suggested query is
\* refine and the normalized suggestion is empty, equals the current query
\* or is in query_history, the step ends in stop with an empty suggested
\* query, the stopping note closes the reason, and iteration is unchanged.
C4_RefineWithoutNewQueryStops ==
    [][ LET parsed == Parsed(answer')
            s == IF OrEmpty(parsed.suggested_query) = <<>> THEN <<>>
                 ELSE _normalize_query(parsed.suggested_query)
        IN  ( /\ EvaluateStep
              /\ ActionBeforeRule2(state, parsed) = Refine
              /\ \/ s = <<>>
                 \/ s = OrEmpty(state.query)
                 \/ \E i \in 1..Len(state.query_history) : state.query_history[i] = s )
            => ( /\ state'.eval_action = Stop
                 /\ state'.eval_suggested_query = <<>>
                 /\ LastPiece(state'.eval_reason) = NoteStopping
                 /\ state'.iteration = state.iteration ) ]_vars

\* The evaluator asked to refine with a query that is in the history but is
\* not the current one, and the step ended in stop.
C4_Witness ==
    /\ pc = "agent_postprocess"
    /\ answer.kind = "object"
    /\ answer.action = Refine
    /\ answer.suggested_query \notin {None, <<>>}
    /\ _normalize_query(answer.suggested_query) # state.query
    /\ \E i \in 1..Len(state.query_history) :
          state.query_history[i] = _normalize_query(answer.suggested_query)
    /\ state.eval_action = Stop
    /\ state.eval_suggested_query = <<>>
    /\ LastPiece(state.eval_reason) = NoteStopping

\* C5: an agent_evaluate step entered with no hits and iteration = 0 never
\* ends in stop.
C5_NoStopOnFirstEmptyHits ==
    [][ (EvaluateStep /\ state.wikidata_hits = <<>> /\ state.iteration = 0)
        => state'.eval_action # Stop ]_vars

\* score >= 0.5 on a float; False for NaN.
ScoreAtLeastHalf(score) == ~score.nan /\ score.tenths >= 5

\* C6: when eval_action is select, every selected entity has score >= 0.5
\* and a description holding none of the disallowed terms in any case.
C6_SelectedAreAcceptable ==
    state.eval_action = Select =>
        \A i \in 1..Len(state.selected_entities) :
            /\ ScoreAtLeastHalf(state.selected_entities[i].score)
            /\ ~\E term \in DisallowedTerms :
                   Contains(Lower(state.selected_entities[i].description), term)

\* C7: eval_action = select implies selected_entities is not empty.
C7_SelectNeverEmpty ==
    state.eval_action = Select => state.selected_entities # <<>>

\* The evaluator selected, filtering dropped part of its candidates and
\* kept the rest.
C7_Witness ==
    /\ pc \in {"agent_postprocess", "END"}
    /\ state.eval_action = Select
    /\ state.selected_entities # <<>>
    /\ Len(state.selected_entities) < Len(answer.candidates)

\* The evaluator answered select and no candidate passes the filter: each
\* has no id, a disallowed description or a score below 0.5.
SelectFilteredToNothing(ans) ==
    /\ ans.kind = "object"
    /\ ans.action \notin {None, NotAStr}
    /\ Lower(ans.action) = Select
    /\ \A i \in 1..Len(ans.candidates) :
          LET c == ans.candidates[i]
          IN  \/ c.id \in {None, <<>>}
              \/ IsArticle(OrEmpty(c.description))
              \/ FloatLt(ToFloat(c.score), Float(5))

\* C8 as stated: a select whose candidates are all filtered out ends the
\* step in refine, with the diagnostic note in the reason.
C8_EmptySelectionEndsInRefine ==
    [][ (EvaluateStep /\ SelectFilteredToNothing(answer'))
        => ( /\ state'.eval_action = Refine
             /\ HasPiece(state'.eval_reason, NoteNoCandidates) ) ]_vars

\* C8, amended: such a select is downgraded to refine with the diagnostic
\* note appended and then meets the rule on the suggested query: the step
\* ends in refine when the normalized suggestion is a new query, in stop
\* otherwise, never in select.
C8_EmptySelectionRefinesOrStops ==
    [][ (EvaluateStep /\ SelectFilteredToNothing(answer'))
        => ( /\ HasPiece(state'.eval_reason, NoteNoCandidates)
             /\ state'.selected_entities = <<>>
             /\ state'.eval_action =
                   IF FreshSuggestion(state, answer') THEN Refine ELSE Stop ) ]_vars

\* A select with candidates, all filtered out, has ended in refine.
C8_Witness ==
    /\ SelectFilteredToNothing(answer)
    /\ answer.candidates # <<>>
    /\ state.eval_action = Refine
    /\ HasPiece(state.eval_reason, NoteNoCandidates)

\* C9: iteration changes only in an agent_evaluate step that ends in refine
\* with a new suggested query, and then by +1; every other step, and every
\* agent_evaluate step ending in select or stop, leaves it unchanged.
C9_IterationOnlyOnRefine ==
    [][ /\ state'.iteration # state.iteration
           => ( /\ EvaluateStep
                /\ state'.iteration = state.iteration + 1
                /\ state'.eval_action = Refine
                /\ FreshSuggestion(state, answer')
                /\ state'.eval_suggested_query = _normalize_query(answer'.suggested_query) )
        /\ (EvaluateStep /\ state'.eval_action = Refine)
           => state'.iteration = state.iteration + 1
        /\ (EvaluateStep /\ state'.eval_action \in {Select, Stop})
           => state'.iteration = state.iteration
        /\ pc # "agent_evaluate" => state'.iteration = state.iteration ]_vars

\* The counter has been incremented twice and the run has also taken an
\* agent_evaluate step that ended in stop and left it alone.
C9_Witness ==
    /\ state.iteration = 2
    /\ pc = "agent_postprocess"
    /\ state.eval_action = Stop
    /\ Len(state.query_history) = 3

\* C10: after agent_evaluate the graph goes to generate_query exactly when
\* eval_action is refine and iteration < max_iterations, and to
\* agent_postprocess otherwise; from there only END follows.
C10_RouterAfterEvaluate ==
    [][ /\ EvaluateStep
           => ( /\ pc' = "generate_query"
                   <=> ( /\ state'.eval_action = Refine
                         /\ state'.iteration < state'.max_iterations )
                /\ pc' \in {"generate_query", "agent_postprocess"} )
        /\ pc = "agent_postprocess" => pc' = "END"
        /\ pc = "END" => pc' = "END" ]_vars

\* A refine at the bound has been routed to agent_postprocess.
C10_Witness ==
    /\ pc = "agent_postprocess"
    /\ state.eval_action = Refine
    /\ state.max_iterations >= 1
    /\ state.iteration = state.max_iterations

\* No entry occurs twice in a sequence.
NoRepeat(seq) == \A i, j \in 1..Len(seq) : i # j => seq[i] # seq[j]

\* C11: when every agent_evaluate step gets a refine answer with a new
\* suggested query, a run with max_iterations = N >= 1 does not raise and
\* ends with iteration = N and N history entries after N search steps.
C11_AlwaysRefineRunsToBound ==
    only_fresh_refines =>
        /\ pc # "raised"
        /\ state.iteration = steps.agent_evaluate
        /\ (pc \in {"agent_postprocess", "END"} /\ state.max_iterations >= 1)
           => ( /\ state.iteration = state.max_iterations
                /\ Len(state.query_history) = state.max_iterations
                /\ steps.search_wikidata = state.max_iterations
                /\ steps.agent_evaluate = state.max_iterations )

\* A run with max_iterations = 3 whose three answers were all new refines
\* has ended.
C11_Witness ==
    /\ pc = "END"
    /\ only_fresh_refines
    /\ state.max_iterations = 3
    /\ state.iteration = 3
    /\ Len(state.query_history) = 3
    /\ steps.search_wikidata = 3

\* C12: a refine answer whose suggestion is the query just searched, itself
\* adopted from the previous suggestion, ends the step in stop and the run
\* goes to agent_postprocess with no further search; no query is passed to
\* the search endpoint twice in a run.
C12_NoQuerySearchedTwice ==
    [][ /\ ( /\ EvaluateStep
             /\ Len(state.query_history) >= 2
             /\ answer'.kind = "object"
             /\ answer'.action \notin {None, NotAStr}
             /\ Lower(answer'.action) = Refine
             /\ answer'.suggested_query \notin {None, <<>>}
             /\ _normalize_query(answer'.suggested_query) = state.query )
           => ( /\ state'.eval_action = Stop
                /\ pc' = "agent_postprocess"
                /\ searched' = searched )
        /\ pc \in {"agent_postprocess", "END"} => searched' = searched
        /\ NoRepeat(searched') ]_vars

\* The evaluator has suggested the query just searched a second time, the
\* step has ended in stop and two queries have been searched, each once.
C12_Witness ==
    /\ pc = "agent_postprocess"
    /\ Len(searched) = 2
    /\ answer.kind = "object"
    /\ answer.action = Refine
    /\ answer.suggested_query \notin {None, <<>>}
    /\ _normalize_query(answer.suggested_query) = searched[2]
    /\ state.eval_action = Stop

\* C13: when the first query is not empty and its search returns no hits,
\* the first agent_evaluate step ends in refine and iteration becomes 1,
\* whatever the evaluator answered.
C13_FirstEmptySearchRefines ==
    [][ ( /\ EvaluateStep
          /\ steps.agent_evaluate = 0
          /\ state.iteration = 0
          /\ Len(state.query_history) = 1
          /\ state.query # <<>>
          /\ search_result = "ok"
          /\ state.wikidata_hits = <<>> )
        => ( /\ state'.eval_action = Refine
             /\ state'.iteration = 1 ) ]_vars

\* C14: with an empty current query the search_wikidata step makes no call
\* to the search endpoint and changes nothing in the state: the
\* agent_evaluate step that follows reads the hits as they were.
C14_EmptyQuerySkipsSearch ==
    [][ (pc = "search_wikidata" /\ OrEmpty(state.query) = <<>>)
        => ( /\ searched' = searched
             /\ search_result' = "skipped"
             /\ state'.wikidata_hits = state.wikidata_hits
             /\ state' = state
             /\ pc' = "agent_evaluate" ) ]_vars

\* The proposer gave an empty query, the search step was skipped and
\* agent_evaluate is about to read the hits kept from before.
C14_Witness ==
    /\ pc = "agent_evaluate"
    /\ state.query = <<>>
    /\ search_result = "skipped"
    /\ steps.search_wikidata = 1
    /\ searched = <<>>
    /\ state.wikidata_hits = <<>>

\* C15: a search call that fails leaves the search_wikidata step without an
\* exception and with an empty hit list for agent_evaluate.
C15_FailedSearchGivesNoHits ==
    [][ (pc = "search_wikidata" /\ search_result' = "failed")
        => ( /\ pc' = "agent_evaluate"
             /\ state'.wikidata_hits = <<>> ) ]_vars

\* The evaluator's text gives no decision record: it is not JSON, its top
\* level is not an object, a candidate is not an object, or a score or rank
\* is not a number.
Malformed(ans) ==
    \/ ans.kind \in {"invalid", "nonobject"}
    \/ \E i \in 1..Len(ans.candidates) :
          \/ ~ans.candidates[i].isdict
          \/ ans.candidates[i].score.t = "text"
          \/ ans.candidates[i].rank.t = "text"

\* C16: on such an answer agent_evaluate returns, with no exception, and
\* treats it as a stop with a reason text and no candidates.
C16_MalformedAnswerIsStop ==
    [][ (pc = "agent_evaluate" /\ Malformed(answer'))
        => ( /\ pc' # "raised"
             /\ state'.eval_action = Stop
             /\ state'.eval_reason \notin {None, <<>>}
             /\ state'.selected_entities = <<>> ) ]_vars

\* C17: a generate_query step entered with a suggested query makes it the
\* query, normalized, without a proposer call; every loop-back is such a
\* step, and the search step that follows passes exactly that query on.
C17_SuggestionIsAdopted ==
    [][ /\ (pc = "generate_query" /\ OrEmpty(state.eval_suggested_query) # <<>>)
           => ( /\ state'.query = _normalize_query(state.eval_suggested_query)
                /\ state'.query = state.eval_suggested_query
                /\ proposer_calls' = proposer_calls )
        /\ (pc = "generate_query" /\ steps.agent_evaluate > 0)
           => ( /\ answer.kind = "object"
                /\ answer.suggested_query \notin {None, <<>>}
                /\ state.eval_suggested_query = _normalize_query(answer.suggested_query)
                /\ state'.query = state.eval_suggested_query )
        /\ (pc = "search_wikidata" /\ steps.agent_evaluate > 0)
           => searched' = Append(searched, state.query)
        /\ proposer_calls' <= 1 ]_vars

\* The run has looped back twice on suggestions and searched them, with the
\* one proposer call of the first step.
C17_Witness ==
    /\ pc = "agent_evaluate"
    /\ Len(state.query_history) = 3
    /\ proposer_calls = 1
    /\ Len(searched) >= 2
    /\ searched[Len(searched)] = state.query

\* C18: generate_query leaves eval_action, eval_reason and
\* eval_suggested_query cleared, so search_wikidata and agent_evaluate start
\* without a decision; the decision a later generate_query step reads is the
\* one the agent_evaluate step just before it wrote from its answer, and
\* there is none on the first entry.
C18_DecisionFieldsCleared ==
    [][ /\ pc = "generate_query"
           => ( /\ state'.eval_action = None
                /\ state'.eval_reason = None
                /\ state'.eval_suggested_query = None )
        /\ pc' \in {"search_wikidata", "agent_evaluate"}
           => ( /\ state'.eval_action = None
                /\ state'.eval_reason = None
                /\ state'.eval_suggested_query = None )
        /\ (pc' = "generate_query" /\ steps'.agent_evaluate = 0)
           => ( /\ state'.eval_action = None
                /\ state'.eval_reason = None
                /\ state'.eval_suggested_query = None )
        /\ (pc' = "generate_query" /\ steps'.agent_evaluate > 0)
           => ( /\ pc = "agent_evaluate"
                /\ state'.eval_action = Refine
                /\ state'.eval_suggested_query = cleaned_suggested(Parsed(answer'))
                /\ state' = node_agent_evaluate(state, answer') ) ]_vars

\* After a loop-back the decision fields are cleared again, the history
\* holding the query adopted from the decision.
C18_Witness ==
    /\ pc = "search_wikidata"
    /\ Len(state.query_history) = 2
    /\ steps.agent_evaluate = 1
    /\ state.eval_action = None
    /\ state.eval_reason = None
    /\ state.eval_suggested_query = None

\* A query in the normal form of the specification: lowercase, no
\* punctuation, words separated by single spaces, at most 4 words.
IsNormalForm(q) ==
    /\ q = Lower(q)
    /\ \A i \in 1..Len(q) : q[i] \notin {",", "|"}
    /\ q = Join(Split(q))
    /\ Len(Split(q)) <= 4

\* C19: the current query, every entry of query_history and the suggested
\* query are in normal form whenever they are set.
C19_StoredQueriesNormalized ==
    /\ state.query # None => IsNormalForm(state.query)
    /\ \A i \in 1..Len(state.query_history) : IsNormalForm(state.query_history[i])
    /\ state.eval_suggested_query # None => IsNormalForm(state.eval_suggested_query)

\* C20: normalizing a normalized query changes nothing.
C20_NormalizeIdempotent ==
    norm.twice # None => norm.twice = norm.once

\* A string with a separator and five words has been normalized twice; the
\* first pass replaced the separator and cut it to four words.
C20_Witness ==
    /\ norm.twice # None
    /\ \E i \in 1..Len(norm.q) : norm.q[i] \in {",", "|"}
    /\ Len(Split(ReplaceWithSpace(ReplaceWithSpace(norm.q, "|"), ","))) = 5
    /\ Len(Split(norm.once)) = 4
    /\ norm.once # norm.q

\* C21: after every agent_evaluate step eval_suggested_query is non-empty
\* only if eval_action is refine, and selected_entities is non-empty only
\* if eval_action is select.
C21_ActionFieldsExclusive ==
    [][ EvaluateStep
        => ( /\ OrEmpty(state'.eval_suggested_query) # <<>>
                => state'.eval_action = Refine
             /\ state'.selected_entities # <<>>
                => state'.eval_action = Select ) ]_vars

\* s is a prefix of t.
IsPrefix(s, t) == Len(s) <= Len(t) /\ SubSeq(t, 1, Len(s)) = s

\* C22: query_history is append-only: a step leaves it as it was or, in
\* generate_query only, appends exactly one entry, the new query;
\* search_wikidata, agent_evaluate and agent_postprocess leave it unchanged.
C22_HistoryAppendOnly ==
    [][ /\ IsPrefix(state.query_history, state'.query_history)
        /\ pc = "generate_query"
           => ( /\ Len(state'.query_history) = Len(state.query_history) + 1
                /\ state'.query_history = Append(state.query_history, state'.query) )
        /\ pc # "generate_query"
           => state'.query_history = state.query_history ]_vars

\* The history has grown to three entries over two loop-backs and every
\* node has run since.
C22_Witness ==
    /\ pc = "END"
    /\ Len(state.query_history) = 3
    /\ steps.search_wikidata = 3
    /\ steps.agent_evaluate = 3

\* C23: every entity in selected_entities has a score within [0,1] that is
\* at least 0.5, and a rank that is a positive integer.
C23_SelectedScoreAndRankInRange ==
    \A i \in 1..Len(state.selected_entities) :
        LET e == state.selected_entities[i]
        IN  /\ ~e.score.nan
            /\ 5 <= e.score.tenths
            /\ e.score.tenths <= 10
            /\ e.rank >= 1

\* C25: agent_postprocess cannot fail in a terminal state and changes
\* nothing but agent_notes: query, history, hits, iteration, the decision
\* and the selected entities stay as agent_evaluate left them, and the note
\* reports the action, the query, the reason and the two counts of that
\* state.
C25_PostprocessOnlyWritesNote ==
    [][ pc = "agent_postprocess"
        => ( /\ ENABLED AgentPostprocess
             /\ pc' = "END"
             /\ state' = [state EXCEPT !.agent_notes = state'.agent_notes]
             /\ state'.agent_notes.action = state.eval_action
             /\ state'.agent_notes.query = OrEmpty(state.query)
             /\ state'.agent_notes.reason = state.eval_reason
             /\ state'.agent_notes.hits = Len(state.wikidata_hits)
             /\ state'.agent_notes.selected = Len(state.selected_entities) ) ]_vars

\* A run that ended in stop after a loop-back, with a suggested query left
\* in the decision, has been packaged: the note is written and the rest is
\* as it was.
C25_Witness ==
    /\ pc = "END"
    /\ state.agent_notes # NoNotes
    /\ state.agent_notes.action = Stop
    /\ state.iteration = 1
    /\ Len(state.query_history) = 2
    /\ OrEmpty(state.eval_suggested_query) # <<>>
    /\ state.agent_notes.hits = 2

\* The queries of a history, each counted once.
DistinctQueries(history) == { history[i] : i \in 1..Len(history) }

\* C26: a run never ends in stop while query_history holds fewer than two
\* distinct queries.
C26_NoStopBeforeTwoQueries ==
    (pc \in {"agent_postprocess", "END"} /\ state.eval_action = Stop)
    => Cardinality(DistinctQueries(state.query_history)) >= 2

\* The "action" value of an answer is missing or is not one of the three
\* actions in any case.
Unrecognized(action) ==
    \/ action \in {None, <<>>, NotAStr}
    \/ Lower(action) \notin {Select, Refine, Stop}

\* C27: after every agent_evaluate step eval_action is select, refine or
\* stop; an answer whose action is missing or unrecognized is handled, with
\* no exception, exactly as the same answer with action stop, the override
\* on empty hits at iteration < 1 included.
C27_UnknownActionIsStop ==
    [][ (pc = "agent_evaluate" /\ answer'.kind = "object")
        => ( /\ pc' # "raised" => state'.eval_action \in {Select, Refine, Stop}
             /\ Unrecognized(answer'.action)
                => ( /\ pc' # "raised"
                     /\ state' = node_agent_evaluate(state,
                                      [answer' EXCEPT !.action = Stop]) ) ) ]_vars

\* The ids of the records of a hit list that have one.
HitIds(hits) ==
    { hits[i].id : i \in { j \in 1..Len(hits) : "id" \in DOMAIN hits[j] } }

\* C28: every selected entity has the id of one of the hits agent_evaluate
\* was given, and eval_action is never select when the hit list is empty or
\* holds only a failure record.
C28_SelectedAmongHits ==
    /\ \A i \in 1..Len(state.selected_entities) :
          state.selected_entities[i].id \in HitIds(state.wikidata_hits)
    /\ state.eval_action = Select => HitIds(state.wikidata_hits) # {}

\* C29: once generate_query has run, the query is the last history entry
\* and len(query_history) - 1 <= iteration <= len(query_history); the two
\* are equal exactly from an agent_evaluate step that ended in refine until
\* the next generate_query step, or for good when the run ends there.
C29_IterationTracksHistory ==
    steps.generate_query >= 1 =>
        /\ state.query_history # <<>>
        /\ state.query = state.query_history[Len(state.query_history)]
        /\ Len(state.query_history) - 1 <= state.iteration
        /\ state.iteration <= Len(state.query_history)
        /\ state.iteration = Len(state.query_history)
           <=> ( /\ state.eval_action = Refine
                 /\ pc \in {"generate_query", "agent_postprocess", "END"} )

\* A run has ended at the bound after two loop-backs, iteration equal to
\* the length of the history.
C29_Witness ==
    /\ pc = "END"
    /\ state.eval_action = Refine
    /\ state.iteration = 3
    /\ Len(state.query_history) = 3
    /\ state.query = state.query_history[3]

\* The first search step found an empty query and made no call.
FirstSearchSkipped ==
    /\ steps.search_wikidata >= 1
    /\ Strip(state.query_history[1]) = <<>>

\* C30: with max_iterations >= 1 a run takes at most max_iterations
\* generate_query steps and makes at most max_iterations search calls;
\* every query after the first is non-empty, so every loop-back makes
\* exactly one search call; a run that ends in refine has
\* iteration = max_iterations.
C30_StepsWithinBound ==
    state.max_iterations >= 1 =>
        /\ steps.generate_query <= state.max_iterations
        /\ steps.search_wikidata <= state.max_iterations
        /\ Len(searched) <= state.max_iterations
        /\ \A i \in 2..Len(state.query_history) : Strip(state.query_history[i]) # <<>>
        /\ Len(searched) = steps.search_wikidata - (IF FirstSearchSkipped THEN 1 ELSE 0)
        /\ (pc \in {"agent_postprocess", "END"} /\ state.eval_action = Refine)
           => state.iteration = state.max_iterations

\* A run with max_iterations = 2 whose first query was empty has looped
\* back once, made its one search call and ended in refine at the bound.
C30_Witness ==
    /\ pc = "END"
    /\ state.max_iterations = 2
    /\ steps.generate_query = 2
    /\ steps.search_wikidata = 2
    /\ Len(searched) = 1
    /\ state.query_history[1] = <<>>
    /\ state.eval_action = Refine
    /\ state.iteration = 2

====
